---- MODULE Spec2Model ----
(***************************************************************************)
(* A model of src/index.js: the asteroid-dodging canvas game.              *)
(*                                                                         *)
(* Representation of the JavaScript numbers:                               *)
(*   - lengths and coordinates are integers counting hundredths of a       *)
(*     pixel (Px(n) is n pixels);                                          *)
(*   - a result of Math.random() is an integer r in 0..999 standing for    *)
(*     r/1000;                                                             *)
(*   - an angle in radians is an integer a standing for a*PI/1800 (so      *)
(*     3600 is a full turn); Math.sin/Math.cos are computed to three       *)
(*     decimals;                                                           *)
(*   - times are integer milliseconds;                                     *)
(*   - a value of localStorage is null or a string; a number that the      *)
(*     code compares with a string is a record that is NaN or an integer.  *)
(* The arrays stars and asteroids are bags: the code only pushes to them,  *)
(* filters them, and asks for their length, forEach and some, none of      *)
(* which depends on the order of the elements.                             *)
(* Drawing (the canvas context c) has no effect on the state and is left   *)
(* out.                                                                    *)
(***************************************************************************)
EXTENDS Integers, Sequences, FiniteSets, Bags, TLC

VARIABLES
    canvas,      \* canvas.width, canvas.height (set once, lines 10-11)
    stars,       \* the array stars
    asteroids,   \* the array asteroids
    player,      \* the Player object
    controller,  \* the Controller object
    lastTime,    \* let lastTime
    deltaTime,   \* let deltaTime
    totalTime,   \* let totalTime
    gameOver,    \* let gameOver
    bestTime,    \* const bestTime, read from localStorage at load (line 336)
    storage,     \* the item 'bestTime' of localStorage
    pending,     \* a gameLoop callback is scheduled by requestAnimationFrame
    frames,      \* the number of frames run so far (bounds the model)
    probe,       \* what the latest call of gameLoop did (observation only)
    call         \* a direct call of a function by a harness, with its result

vars == <<canvas, stars, asteroids, player, controller, lastTime, deltaTime,
          totalTime, gameOver, bestTime, storage, pending, frames, probe,
          call>>

----------------------------------------------------------------------------
(* Bounds of the environment.                                              *)

\* frames of the broad specification Spec
MaxFrames == 2
\* frames of the narrow, deep specification DeepSpec
DeepFrames == 14
\* milliseconds between two animation frames
FramePeriod == 16
\* milliseconds of one long pause between two frames (a hidden tab)
LongPause == 10000
\* direct calls of gameLoop a harness makes once the game is over
MaxCalls == 2
\* frames before which key events arrive in the specification KeySpec
KeyFrames == 3
\* the pixels a box given to intersects lies from the origin, at most
MaxCoord == 6
\* the multiples of TimeStride milliseconds given to getTime
MaxSamples == 100
\* milliseconds between two times given to getTime
TimeStride == 7919

----------------------------------------------------------------------------
(* Game constants (lines 14-19) and the literals of the constructors.      *)

ASTEROIDS_ON_SCREEN == 10
\* 0.3, as numerator and denominator
ASTEROIDS_OVER_TIME == <<3, 10>>
ASTEROID_SPEED == 3
STAR_COUNT == 100
\* 0.1, as numerator and denominator
STAR_SPEED == <<1, 10>>
PLAYER_SPEED == 5
\* for (let i = 0; i < 100; i++)
SEED_STARS == 100
\* const width = 1, const height = 1 of a Star
STAR_SIZE == 1
\* const width = 50, const height = 50 of an Asteroid
ASTEROID_SIZE == 50
\* new Player(..., 50, 50, ...)
PLAYER_SIZE == 50

OuterCanvasArea == [BOTTOM |-> 0, TOP |-> 1, LEFT |-> 2, RIGHT |-> 3]

----------------------------------------------------------------------------
(* Arithmetic.                                                             *)

Px(n) == n * 100

\* a * m / d, rounded towards zero
MulDiv(a, m, d) ==
    IF a * m >= 0 THEN (a * m) \div d ELSE -((-(a * m)) \div d)

\* Math.random() * range, r in 0..999
Scaled(r, range) == MulDiv(r, range, 1000)

\* 1000 * sin of x*PI/1800, for x in 0..1800
HalfSine(x) ==
    LET p == x * (1800 - x)
    IN  (400 * p) \div ((4050000 - p) \div 10)

\* 1000 * Math.sin(a)
Sin1000(a) ==
    LET m == a % 3600
    IN  IF m <= 1800 THEN HalfSine(m) ELSE -HalfSine(m - 1800)

\* 1000 * Math.cos(a)
Cos1000(a) == Sin1000(a + 900)

\* Math.floor(Math.random() * 4)
RandIndex(r) == (r * 4) \div 1000

degToRad(deg) == deg * 10

getRandAngle(r, deg1, deg2) ==
    LET rad1 == degToRad(deg1)
        rad2 == degToRad(deg2)
    IN  Scaled(r, rad2 - rad1) + rad1

----------------------------------------------------------------------------
(* SpaceObject.                                                            *)

\* intersects with <= for <: boxes that touch count as intersecting
intersectsTouching(this, object) ==
    LET x1 == this.x - (this.width \div 2)
        y1 == this.y - (this.height \div 2)
        x2 == this.x + (this.width \div 2)
        y2 == this.y + (this.height \div 2)
        x3 == object.x - (object.width \div 2)
        y3 == object.y - (object.height \div 2)
        x4 == object.x + (object.width \div 2)
        y4 == object.y + (object.height \div 2)
    IN  (x1 <= x4) /\ (x3 <= x2) /\ (y1 <= y4) /\ (y3 <= y2)

\* intersects without the test x3 < x2: an object far to the left intersects
intersectsOneSided(this, object) ==
    LET x1 == this.x - (this.width \div 2)
        y1 == this.y - (this.height \div 2)
        x2 == this.x + (this.width \div 2)
        y2 == this.y + (this.height \div 2)
        x3 == object.x - (object.width \div 2)
        y3 == object.y - (object.height \div 2)
        x4 == object.x + (object.width \div 2)
        y4 == object.y + (object.height \div 2)
    IN  (x1 < x4) /\ (y1 < y4) /\ (y3 < y2)

intersects(this, object) ==
    LET x1 == this.x - (this.width \div 2)
        y1 == this.y - (this.height \div 2)
        x2 == this.x + (this.width \div 2)
        y2 == this.y + (this.height \div 2)
        x3 == object.x - (object.width \div 2)
        y3 == object.y - (object.height \div 2)
        x4 == object.x + (object.width \div 2)
        y4 == object.y + (object.height \div 2)
    IN  (x1 < x4) /\ (x3 < x2) /\ (y1 < y4) /\ (y3 < y2)

\* outOfBounds without the object's width and height
outOfBoundsNoMargin(this, cv) ==
    << this.x > cv.width,
       this.x < 0,
       this.y > cv.height,
       this.y < 0 >>

outOfBounds(this, cv) ==
    << this.x > cv.width + this.width,
       this.x < 0 - this.width,
       this.y > cv.height + this.height,
       this.y < 0 - this.height >>

\* outOfBounds().some((val) => val)
SomeOutOfBounds(this, cv) ==
    \E i \in 1..4 : outOfBounds(this, cv)[i]

----------------------------------------------------------------------------
(* Star, Player, Asteroid.                                                 *)

\* speed * Math.cos(angle) and speed * Math.sin(angle)
StepX(speed, angle) == MulDiv(speed, Cos1000(angle), 1000)
StepY(speed, angle) == MulDiv(speed, Sin1000(angle), 1000)

\* new Star(x, y, 1, 1, 'white', STAR_SPEED); d.angle is the constructor's
\* Math.random() for this.angle = Math.random() * Math.PI * 2
NewStar(cv, d) ==
    [ x      |-> Scaled(d.x, cv.width),
      y      |-> Scaled(d.y, cv.height),
      width  |-> Px(STAR_SIZE),
      height |-> Px(STAR_SIZE),
      speed  |-> MulDiv(Px(1), STAR_SPEED[1], STAR_SPEED[2]),
      angle  |-> Scaled(d.angle, 3600) ]

\* Star.update and Asteroid.update
Moved(o) ==
    [o EXCEPT !.x = o.x + StepX(o.speed, o.angle),
              !.y = o.y + StepY(o.speed, o.angle)]

\* objects.forEach((o) => o.update())
UpdateAll(objects) == BagOfAll(Moved, objects)

\* objects.push(o)
Push(objects, o) == objects (+) SetToBag({o})

\* n equal elements
Copies(o, n) == IF n > 0 THEN [e \in {o} |-> n] ELSE EmptyBag

\* Player.update with the tests in the other order: left and up win
DisplacedLeftWins(p, ctl) ==
    LET dx == IF ctl.left THEN -p.speed
              ELSE IF ctl.right THEN p.speed ELSE 0
        dy == IF ctl.up THEN -p.speed
              ELSE IF ctl.down THEN p.speed ELSE 0
    IN  [p EXCEPT !.dx = dx, !.dy = dy, !.x = p.x + dx, !.y = p.y + dy]

\* Player.update up to this.y += this.dy
Displaced(p, ctl) ==
    LET dx == IF ctl.right THEN p.speed
              ELSE IF ctl.left THEN -p.speed ELSE 0
        dy == IF ctl.down THEN p.speed
              ELSE IF ctl.up THEN -p.speed ELSE 0
    IN  [p EXCEPT !.dx = dx, !.dy = dy, !.x = p.x + dx, !.y = p.y + dy]

\* chkBounds putting the player on the edge instead of beyond it
chkBoundsToEdge(p, cv) ==
    LET oob == outOfBounds(p, cv)
        x1 == IF oob[1] THEN 0 ELSE p.x
        x2 == IF oob[2] THEN cv.width ELSE x1
        y1 == IF oob[3] THEN 0 ELSE p.y
        y2 == IF oob[4] THEN cv.height ELSE y1
    IN  [p EXCEPT !.x = x2, !.y = y2]

\* chkBounds with canvas.width in both branches that wrap to the far edge
chkBoundsWidthTwice(p, cv) ==
    LET oob == outOfBounds(p, cv)
        x1 == IF oob[1] THEN p.width * (-1) ELSE p.x
        x2 == IF oob[2] THEN cv.width ELSE x1
        y1 == IF oob[3] THEN p.height * (-1) ELSE p.y
        y2 == IF oob[4] THEN cv.width ELSE y1
    IN  [p EXCEPT !.x = x2, !.y = y2]

\* chkBounds without the two tests of y
chkBoundsXOnly(p, cv) ==
    LET oob == outOfBounds(p, cv)
        x1 == IF oob[1] THEN p.width * (-1) ELSE p.x
        x2 == IF oob[2] THEN cv.width ELSE x1
    IN  [p EXCEPT !.x = x2]

chkBounds(p, cv) ==
    LET oob == outOfBounds(p, cv)
        x1 == IF oob[1] THEN p.width * (-1) ELSE p.x
        x2 == IF oob[2] THEN cv.width ELSE x1
        y1 == IF oob[3] THEN p.height * (-1) ELSE p.y
        y2 == IF oob[4] THEN cv.height ELSE y1
    IN  [p EXCEPT !.x = x2, !.y = y2]

PlayerUpdate(p, ctl, cv) == chkBounds(Displaced(p, ctl), cv)

\* new Player(canvas.width / 2, canvas.height / 2, 50, 50, 'red', PLAYER_SPEED, controller)
NewPlayer(cv) ==
    [ x |-> cv.width \div 2, y |-> cv.height \div 2,
      width |-> Px(PLAYER_SIZE), height |-> Px(PLAYER_SIZE),
      speed |-> Px(PLAYER_SPEED), dx |-> 0, dy |-> 0 ]

----------------------------------------------------------------------------
(* SpawnArea.                                                              *)

spawnAreaLeft(cv) ==
    [ x |-> Px(-100), y |-> 0, width |-> Px(101), height |-> cv.width,
      outerCanvasArea |-> OuterCanvasArea.LEFT ]
spawnAreaRight(cv) ==
    [ x |-> cv.width - Px(1), y |-> 0, width |-> Px(100), height |-> cv.height,
      outerCanvasArea |-> OuterCanvasArea.RIGHT ]
spawnAreaTop(cv) ==
    [ x |-> 0, y |-> Px(-100), width |-> cv.width, height |-> Px(101),
      outerCanvasArea |-> OuterCanvasArea.TOP ]
spawnAreaBottom(cv) ==
    [ x |-> 0, y |-> cv.height - Px(1), width |-> cv.width, height |-> Px(100),
      outerCanvasArea |-> OuterCanvasArea.BOTTOM ]

\* the switch (rand) of gameLoop
PickArea(rand, cv) ==
    CASE rand = 0 -> spawnAreaLeft(cv)
      [] rand = 1 -> spawnAreaRight(cv)
      [] rand = 2 -> spawnAreaTop(cv)
      [] rand = 3 -> spawnAreaBottom(cv)

\* the angles with the ranges of the bottom and the top area exchanged
SpawnAngleSwapped(area, d) ==
    CASE area.outerCanvasArea = OuterCanvasArea.BOTTOM -> getRandAngle(d.a1, 20, 160)
      [] area.outerCanvasArea = OuterCanvasArea.TOP    -> getRandAngle(d.a1, 200, 340)
      [] area.outerCanvasArea = OuterCanvasArea.LEFT   ->
             getRandAngle(d.a1, 275, 360) + getRandAngle(d.a2, 5, 80)
      [] area.outerCanvasArea = OuterCanvasArea.RIGHT  ->
             getRandAngle(d.a1, 95, 175) + getRandAngle(d.a2, 5, 85)

\* the angle spawnAsteroid gives; d.a1 and d.a2 are the results of Math.random()
SpawnAngle(area, d) ==
    CASE area.outerCanvasArea = OuterCanvasArea.BOTTOM -> getRandAngle(d.a1, 200, 340)
      [] area.outerCanvasArea = OuterCanvasArea.TOP    -> getRandAngle(d.a1, 20, 160)
      [] area.outerCanvasArea = OuterCanvasArea.LEFT   ->
             getRandAngle(d.a1, 275, 360) + getRandAngle(d.a2, 5, 80)
      [] area.outerCanvasArea = OuterCanvasArea.RIGHT  ->
             getRandAngle(d.a1, 95, 175) + getRandAngle(d.a2, 5, 85)

\* the Asteroid that spawnAsteroid pushes
spawnAsteroid(area, d) ==
    [ x      |-> Scaled(d.x, area.width) + area.x,
      y      |-> Scaled(d.y, area.height) + area.y,
      width  |-> Px(ASTEROID_SIZE),
      height |-> Px(ASTEROID_SIZE),
      speed  |-> Scaled(d.speed, Px(ASTEROID_SPEED)) + Px(1),
      angle  |-> SpawnAngle(area, d) ]

\* the target without its growth over time
BelowAsteroidTargetFixed(length, time) == length < ASTEROIDS_ON_SCREEN

\* the test with <= for <, off by one: a spawn also at the target and up to
\* one above it
BelowAsteroidTargetPlusOne(length, time) ==
    (length - 1) * 1000 * ASTEROIDS_OVER_TIME[2]
        <= ASTEROIDS_ON_SCREEN * 1000 * ASTEROIDS_OVER_TIME[2]
           + time * ASTEROIDS_OVER_TIME[1]

\* asteroids.length < ASTEROIDS_ON_SCREEN + (totalTime / 1000) * ASTEROIDS_OVER_TIME
BelowAsteroidTarget(length, time) ==
    length * 1000 * ASTEROIDS_OVER_TIME[2]
        < ASTEROIDS_ON_SCREEN * 1000 * ASTEROIDS_OVER_TIME[2]
          + time * ASTEROIDS_OVER_TIME[1]

\* stars.length <= STAR_COUNT
BelowStarTargetOrAt(length) == length <= STAR_COUNT

\* stars.length < STAR_COUNT
BelowStarTarget(length) == length < STAR_COUNT

\* objects.filter((o) => !o.outOfBounds().some((val) => val))
InBounds(objects, cv) ==
    LET kept == {o \in BagToSet(objects) : ~SomeOutOfBounds(o, cv)}
    IN  [o \in kept |-> objects[o]]

\* asteroids.some((asteroid) => player.intersects(asteroid))
SomeIntersects(p, objects) ==
    \E o \in BagToSet(objects) : intersects(p, o)

----------------------------------------------------------------------------
(* localStorage and the conversions between numbers and strings.           *)
(* A string is a sequence of one-character strings.                        *)

Digits == <<"0", "1", "2", "3", "4", "5", "6", "7", "8", "9">>

RECURSIVE NumToStr(_)
\* String(n) for an integer n >= 0
NumToStr(n) ==
    IF n < 10 THEN <<Digits[n + 1]>>
    ELSE Append(NumToStr(n \div 10), Digits[(n % 10) + 1])

IsDigit(ch) == \E d \in 1..10 : Digits[d] = ch
DigitOf(ch) == (CHOOSE d \in 1..10 : Digits[d] = ch) - 1

RECURSIVE DigitsValue(_)
DigitsValue(s) ==
    IF s = <<>> THEN 0
    ELSE DigitsValue(SubSeq(s, 1, Len(s) - 1)) * 10 + DigitOf(s[Len(s)])

NaN == [nan |-> TRUE, v |-> 0]
Num(n) == [nan |-> FALSE, v |-> n]

\* ToNumber of a string: the empty string is 0, a numeral its value, else NaN
StrToNum(s) ==
    IF \A i \in 1..Len(s) : IsDigit(s[i]) THEN Num(DigitsValue(s)) ELSE NaN

\* a > b on numbers: false when either is NaN
JsGreater(a, b) == ~a.nan /\ ~b.nan /\ a.v > b.v

Null == [null |-> TRUE, s |-> <<>>]
Str(s) == [null |-> FALSE, s |-> s]

\* if (bestTime): null and the empty string are falsy
Truthy(item) == ~item.null /\ item.s # <<>>

\* totalTime >= bestTime for totalTime > bestTime
WritesBestTimeOrEqual(item, time) ==
    IF Truthy(item)
    THEN JsGreater(Num(time), StrToNum(item.s)) \/ Num(time) = StrToNum(item.s)
    ELSE TRUE

\* totalTime < bestTime for totalTime > bestTime: the shorter time is the best
WritesBestTimeShorter(item, time) ==
    IF Truthy(item) THEN JsGreater(StrToNum(item.s), Num(time)) ELSE TRUE

\* whether the gameOver branch of gameLoop calls localStorage.setItem
WritesBestTime(item, time) ==
    IF Truthy(item) THEN JsGreater(Num(time), StrToNum(item.s)) ELSE TRUE

\* the item 'bestTime' after the gameOver branch of gameLoop
SaveBestTime(item, time) ==
    IF WritesBestTime(item, time) THEN Str(NumToStr(time)) ELSE item

\* s.padStart(targetLength, padString), for a padString of one character
padStart(s, targetLength, padString) ==
    IF Len(s) >= targetLength THEN s
    ELSE [i \in 1..(targetLength - Len(s)) |-> padString] \o s

\* getTime padding the milliseconds to two digits, like the two other fields
getTimePadTwo(totalElapsedTime) ==
    LET minutes == totalElapsedTime \div 60000
        seconds == (totalElapsedTime - minutes * 60000) \div 1000
        ms      == totalElapsedTime - minutes * 60000 - seconds * 1000
    IN  padStart(NumToStr(minutes), 2, "0") \o <<":">>
        \o padStart(NumToStr(seconds), 2, "0") \o <<":">>
        \o padStart(NumToStr(ms), 2, "0")

\* getTime(totalElapsedTime) for an integer totalElapsedTime >= 0
getTime(totalElapsedTime) ==
    LET minutes == totalElapsedTime \div 60000
        seconds == (totalElapsedTime - minutes * 60000) \div 1000
        ms      == totalElapsedTime - minutes * 60000 - seconds * 1000
    IN  padStart(NumToStr(minutes), 2, "0") \o <<":">>
        \o padStart(NumToStr(seconds), 2, "0") \o <<":">>
        \o padStart(NumToStr(ms), 3, "0")

----------------------------------------------------------------------------
(* The handlers.                                                           *)

\* Controller.keyListener: type is event.type, keyCode is event.keyCode
keyListener(type, keyCode) ==
    LET keyState == (type = "keydown")
    IN  /\ controller' =
             CASE keyCode = 37 -> [controller EXCEPT !.left = keyState]
               [] keyCode = 38 -> [controller EXCEPT !.up = keyState]
               [] keyCode = 39 -> [controller EXCEPT !.right = keyState]
               [] keyCode = 40 -> [controller EXCEPT !.down = keyState]
               [] OTHER -> controller
        /\ UNCHANGED <<canvas, stars, asteroids, player, lastTime, deltaTime,
                       totalTime, gameOver, bestTime, storage, pending, frames,
                       probe, call>>

\* the request left out
requestAnimationFrameDropped(queued) == queued

\* requestAnimationFrame(gameLoop): whether a callback is scheduled afterwards
requestAnimationFrame(queued) == TRUE

\* gameLoop, lines 342-359: the game is over
GameOverBranch(queued) ==
    LET item  == storage
        wrote == WritesBestTime(item, totalTime)
    IN  /\ storage' = SaveBestTime(item, totalTime)
        /\ pending' = queued
        /\ probe' = [probe EXCEPT !.handler = "over",
                                  !.read = item,
                                  !.wrote = wrote,
                                  !.setItems = @ + (IF wrote THEN 1 ELSE 0),
                                  !.overCalls = @ + 1,
                                  !.requested = FALSE]
        /\ UNCHANGED <<canvas, stars, asteroids, player, controller, lastTime,
                       deltaTime, totalTime, gameOver, bestTime, frames, call>>

\* one frame with the pruning before the replenishment
RunningBranchPruneFirst(timeStamp, ad, sd, queued) ==
    LET delta      == timeStamp - lastTime
        total      == totalTime + delta
        stars1     == UpdateAll(stars)
        asteroids1 == UpdateAll(asteroids)
        displaced  == Displaced(player, controller)
        player1    == chkBounds(displaced, canvas)
        asteroids2 == InBounds(asteroids1, canvas)
        stars2     == InBounds(stars1, canvas)
        spawnA     == BelowAsteroidTarget(BagCardinality(asteroids2), total)
        asteroids3 == IF spawnA
                      THEN Push(asteroids2,
                                spawnAsteroid(PickArea(RandIndex(ad.rand), canvas), ad))
                      ELSE asteroids2
        spawnS     == BelowStarTarget(BagCardinality(stars2))
        stars3     == IF spawnS THEN Push(stars2, NewStar(canvas, sd)) ELSE stars2
    IN  /\ deltaTime' = delta
        /\ lastTime' = timeStamp
        /\ totalTime' = total
        /\ pending' = requestAnimationFrame(queued)
        /\ stars' = stars3
        /\ asteroids' = asteroids3
        /\ player' = player1
        /\ gameOver' = SomeIntersects(player1, asteroids3)
        /\ frames' = frames + 1
        /\ probe' = [probe EXCEPT !.handler = "running",
                                  !.preAsteroids = asteroids3,
                                  !.preStars = stars3,
                                  !.spawnedAsteroid = spawnA,
                                  !.spawnedStar = spawnS,
                                  !.displaced = displaced,
                                  !.flags = controller,
                                  !.wrote = FALSE,
                                  !.requested = TRUE]
        /\ UNCHANGED <<canvas, controller, bestTime, storage, call>>

\* one frame with the first delta measured from the first timestamp, not
\* from 0
RunningBranchFromFirstFrame(timeStamp, ad, sd, queued) ==
    LET delta      == IF frames = 0 THEN 0 ELSE timeStamp - lastTime
        total      == totalTime + delta
        stars1     == UpdateAll(stars)
        asteroids1 == UpdateAll(asteroids)
        displaced  == Displaced(player, controller)
        player1    == chkBounds(displaced, canvas)
        spawnA     == BelowAsteroidTarget(BagCardinality(asteroids1), total)
        asteroids2 == IF spawnA
                      THEN Push(asteroids1,
                                spawnAsteroid(PickArea(RandIndex(ad.rand), canvas), ad))
                      ELSE asteroids1
        spawnS     == BelowStarTarget(BagCardinality(stars1))
        stars2     == IF spawnS THEN Push(stars1, NewStar(canvas, sd)) ELSE stars1
        asteroids3 == InBounds(asteroids2, canvas)
        stars3     == InBounds(stars2, canvas)
    IN  /\ deltaTime' = delta
        /\ lastTime' = timeStamp
        /\ totalTime' = total
        /\ pending' = requestAnimationFrame(queued)
        /\ stars' = stars3
        /\ asteroids' = asteroids3
        /\ player' = player1
        /\ gameOver' = SomeIntersects(player1, asteroids3)
        /\ frames' = frames + 1
        /\ probe' = [probe EXCEPT !.handler = "running",
                                  !.preAsteroids = asteroids2,
                                  !.preStars = stars2,
                                  !.spawnedAsteroid = spawnA,
                                  !.spawnedStar = spawnS,
                                  !.displaced = displaced,
                                  !.flags = controller,
                                  !.wrote = FALSE,
                                  !.requested = TRUE]
        /\ UNCHANGED <<canvas, controller, bestTime, storage, call>>

\* gameLoop, lines 361-443: one frame of the running game; ad and sd are the
\* results of Math.random() for a new Asteroid and a new Star
RunningBranch(timeStamp, ad, sd, queued) ==
    LET delta      == timeStamp - lastTime
        total      == totalTime + delta
        stars1     == UpdateAll(stars)
        asteroids1 == UpdateAll(asteroids)
        displaced  == Displaced(player, controller)
        player1    == chkBounds(displaced, canvas)
        spawnA     == BelowAsteroidTarget(BagCardinality(asteroids1), total)
        asteroids2 == IF spawnA
                      THEN Push(asteroids1,
                                spawnAsteroid(PickArea(RandIndex(ad.rand), canvas), ad))
                      ELSE asteroids1
        spawnS     == BelowStarTarget(BagCardinality(stars1))
        stars2     == IF spawnS THEN Push(stars1, NewStar(canvas, sd)) ELSE stars1
        asteroids3 == InBounds(asteroids2, canvas)
        stars3     == InBounds(stars2, canvas)
    IN  /\ deltaTime' = delta
        /\ lastTime' = timeStamp
        /\ totalTime' = total
        /\ pending' = requestAnimationFrame(queued)
        /\ stars' = stars3
        /\ asteroids' = asteroids3
        /\ player' = player1
        /\ gameOver' = SomeIntersects(player1, asteroids3)
        /\ frames' = frames + 1
        /\ probe' = [probe EXCEPT !.handler = "running",
                                  !.preAsteroids = asteroids2,
                                  !.preStars = stars2,
                                  !.spawnedAsteroid = spawnA,
                                  !.spawnedStar = spawnS,
                                  !.displaced = displaced,
                                  !.flags = controller,
                                  !.wrote = FALSE,
                                  !.requested = TRUE]
        /\ UNCHANGED <<canvas, controller, bestTime, storage, call>>

\* gameLoop without the check of gameOver at its start
gameLoopUnguarded(timeStamp, ad, sd, queued) ==
    RunningBranch(timeStamp, ad, sd, queued)

\* gameLoop(timeStamp); queued is whether a callback stays scheduled once this
\* call has started
gameLoop(timeStamp, ad, sd, queued) ==
    IF gameOver
    THEN GameOverBranch(queued)
    ELSE RunningBranch(timeStamp, ad, sd, queued)

----------------------------------------------------------------------------
(* The state after the script has loaded.                                  *)

\* no function has been called directly
NoCall == [fn |-> "none", args |-> <<>>, result |-> <<>>]

NewController == [left |-> FALSE, right |-> FALSE, up |-> FALSE, down |-> FALSE]

\* env.viewports: window.innerWidth x innerHeight; env.stored: the item
\* 'bestTime' left by earlier sessions; env.seeds: the Math.random() results
\* of the seeding loop, the first seed.split stars drawing seed.first, the
\* others seed.rest
Load(env) ==
    /\ canvas \in env.viewports
    /\ \E seed \in env.seeds :
          stars = Copies(NewStar(canvas, seed.first), seed.split)
                  (+) Copies(NewStar(canvas, seed.rest), SEED_STARS - seed.split)
    /\ asteroids = EmptyBag
    /\ controller = NewController
    /\ player = NewPlayer(canvas)
    /\ lastTime = 0
    /\ deltaTime = 0
    /\ totalTime = 0
    /\ gameOver = FALSE
    /\ storage \in env.stored
    /\ bestTime = storage
    /\ pending = TRUE
    /\ frames = 0
    /\ probe = [ handler |-> "load", preAsteroids |-> EmptyBag, preStars |-> stars,
                 spawnedAsteroid |-> FALSE, spawnedStar |-> FALSE,
                 displaced |-> player, flags |-> controller,
                 read |-> Null, wrote |-> FALSE,
                 setItems |-> 0, overCalls |-> 0, requested |-> TRUE ]
    /\ call = NoCall

\* the timestamps the browser may pass to the next callback
TimeStamps(env) ==
    IF frames = 0 THEN env.firstStamps
    ELSE {lastTime + d : d \in env.deltas}

\* the results of Math.random() the next frame may get for a new Asteroid
AsteroidDraws(env) ==
    env.asteroidDraws \cup (IF frames < env.earlyFrames THEN env.earlyDraws ELSE {})

\* the browser runs the scheduled callback
Frame(env) ==
    /\ pending
    /\ gameOver \/ frames < env.maxFrames
    /\ \E timeStamp \in TimeStamps(env), ad \in AsteroidDraws(env),
          sd \in env.starDraws :
          gameLoop(timeStamp, ad, sd, FALSE)

\* the browser delivers a keydown or keyup event
Key(env) ==
    \E type \in {"keydown", "keyup"}, keyCode \in env.keys :
        keyListener(type, keyCode)

\* a harness calls gameLoop again although the game is over
Recall(env) ==
    /\ gameOver
    /\ probe.overCalls < MaxCalls
    /\ \E timeStamp \in env.firstStamps, ad \in env.asteroidDraws,
          sd \in env.starDraws :
          gameLoop(timeStamp, ad, sd, pending)

\* the browser delivers a key event before one of the first frames
EarlyKey(env) ==
    /\ frames < env.keyFrames
    /\ Key(env)

\* what the calls of a harness leave alone
GameUnchanged ==
    UNCHANGED <<canvas, stars, asteroids, player, controller, lastTime,
                deltaTime, totalTime, gameOver, bestTime, storage, pending,
                frames, probe>>

\* a harness calls a.intersects(b) and b.intersects(a)
CallIntersects(env) ==
    /\ call.fn = "none"
    /\ \E a \in env.boxes, b \in env.otherBoxes :
          call' = [fn |-> "intersects", args |-> <<a, b>>,
                   result |-> <<intersects(a, b), intersects(b, a)>>]
    /\ GameUnchanged

\* a harness calls getTime(t)
CallGetTime(env) ==
    /\ call.fn = "none"
    /\ \E t \in env.times :
          call' = [fn |-> "getTime", args |-> <<t>>, result |-> getTime(t)]
    /\ GameUnchanged

\* a harness calls spawnAsteroid() on one of the four spawn areas and takes
\* the Asteroid it pushed
CallSpawnAsteroid(env) ==
    /\ call.fn = "none"
    /\ \E d \in env.asteroidDraws :
          LET area == PickArea(RandIndex(d.rand), canvas)
          IN  call' = [fn |-> "spawnAsteroid", args |-> <<area, d>>,
                       result |-> spawnAsteroid(area, d)]
    /\ GameUnchanged

----------------------------------------------------------------------------
(* Environments.                                                           *)

\* the results of Math.random() in the switch of gameLoop and in spawnAsteroid:
\* the area (0 left, 250 right, 500 top, 750 bottom), x, y, speed and the angles
Draw(rand, x, y, speed, a1, a2) ==
    [rand |-> rand, x |-> x, y |-> y, speed |-> speed, a1 |-> a1, a2 |-> a2]

Viewport(w, h) == [width |-> Px(w), height |-> Px(h)]

StarDraw(x, y, angle) == [x |-> x, y |-> y, angle |-> angle]

\* a small window, two keys, asteroids drawn at every edge
BroadEnv ==
    [ viewports     |-> {Viewport(8, 6)},
      stored        |-> {Null, Str(<<>>), Str(<<"a", "b", "c">>),
                         Str(NumToStr(FramePeriod)),
                         Str(NumToStr(3 * FramePeriod))},
      seeds         |-> {[first |-> StarDraw(500, 500, 0),
                          rest |-> StarDraw(500, 500, 0), split |-> 0]},
      keys          |-> {39, 40},
      firstStamps   |-> {FramePeriod},
      deltas        |-> {FramePeriod},
      maxFrames     |-> MaxFrames,
      asteroidDraws |-> { Draw(0, 515, 500, 999, 500, 500),
                          Draw(0, 0, 500, 0, 500, 500),
                          Draw(250, 515, 500, 0, 500, 500),
                          Draw(250, 470, 500, 0, 500, 500),
                          Draw(500, 500, 515, 0, 500, 500),
                          Draw(750, 500, 0, 0, 500, 500) },
      earlyDraws    |-> {},
      earlyFrames   |-> 0,
      starDraws     |-> {StarDraw(500, 500, 0)} ]

\* many frames, a small and a large window, one key, one asteroid a frame;
\* some stars start at the right edge and leave
DeepEnv ==
    [ viewports     |-> {Viewport(8, 6), Viewport(200, 150)},
      stored        |-> {Null},
      seeds         |-> {[first |-> StarDraw(999, 500, 0),
                          rest |-> StarDraw(500, 500, 250), split |-> 1],
                         [first |-> StarDraw(999, 500, 0),
                          rest |-> StarDraw(500, 500, 250), split |-> SEED_STARS]},
      keys          |-> {39},
      firstStamps   |-> {FramePeriod, LongPause},
      deltas        |-> {FramePeriod},
      maxFrames     |-> DeepFrames,
      asteroidDraws |-> {Draw(0, 515, 500, 0, 500, 500)},
      earlyDraws    |-> {Draw(250, 999, 500, 0, 500, 500)},
      earlyFrames   |-> 2,
      starDraws     |-> {StarDraw(500, 500, 250)} ]

\* all four keys before the first frames, then many frames with the keys as
\* they stand; every asteroid is drawn beyond the top bound and leaves at once
KeyEnv ==
    [ viewports     |-> {Viewport(8, 6)},
      stored        |-> {Null},
      seeds         |-> {[first |-> StarDraw(500, 500, 0),
                          rest |-> StarDraw(500, 500, 0), split |-> 0]},
      keys          |-> {37, 38, 39, 40},
      keyFrames     |-> KeyFrames,
      firstStamps   |-> {FramePeriod},
      deltas        |-> {FramePeriod},
      maxFrames     |-> DeepFrames,
      asteroidDraws |-> {Draw(500, 500, 0, 0, 500, 500)},
      earlyDraws    |-> {},
      earlyFrames   |-> 0,
      starDraws     |-> {StarDraw(500, 500, 0)} ]

\* a box of the given centre and size, in pixels
Box(x, y, w, h) == [x |-> Px(x), y |-> Px(y), width |-> Px(w), height |-> Px(h)]

\* the inputs of the direct calls: boxes about a centre and boxes anywhere,
\* times up to hours, and draws at the ends and the middle of Math.random()
PureEnv ==
    [ viewports     |-> {Viewport(8, 6), Viewport(200, 150), Viewport(150, 200)},
      stored        |-> {Null},
      seeds         |-> {[first |-> StarDraw(500, 500, 0),
                          rest |-> StarDraw(500, 500, 0), split |-> 0]},
      boxes         |-> {Box(MaxCoord \div 2, MaxCoord \div 2, w, h) :
                            w \in 0..2, h \in 0..2},
      otherBoxes    |-> {Box(x, y, w, h) :
                            x \in 0..MaxCoord, y \in 0..MaxCoord,
                            w \in 0..2, h \in 0..2},
      times         |-> {0, 999, 1000, 59999, 60000, 125000, 3599999,
                         5999999, 6000000}
                        \cup {k * TimeStride : k \in 0..MaxSamples},
      asteroidDraws |-> {Draw(rand, x, y, speed, a1, a2) :
                            rand \in {0, 250, 500, 750},
                            x \in {0, 500, 999}, y \in {0, 500, 999},
                            speed \in {0, 999},
                            a1 \in {0, 999}, a2 \in {0, 999}} ]

----------------------------------------------------------------------------
(* Specifications.                                                         *)

Init == Load(BroadEnv)

Next ==
    \/ Frame(BroadEnv)
    \/ Key(BroadEnv)

\* the game in the browser
Spec == Init /\ [][Next]_vars

\* the browser runs a scheduled callback eventually
FairSpec == Spec /\ WF_vars(Frame(BroadEnv))

CallNext ==
    \/ Frame(BroadEnv)
    \/ Key(BroadEnv)
    \/ Recall(BroadEnv)

\* the game, and a harness that calls gameLoop again once the game is over
CallSpec == Init /\ [][CallNext]_vars

DeepInit == Load(DeepEnv)

DeepNext ==
    \/ Frame(DeepEnv)
    \/ Key(DeepEnv)

\* the game in the browser, over many frames
DeepSpec == DeepInit /\ [][DeepNext]_vars

KeyInit == Load(KeyEnv)

KeyNext ==
    \/ Frame(KeyEnv)
    \/ EarlyKey(KeyEnv)

\* the game in the browser with the four arrow keys
KeySpec == KeyInit /\ [][KeyNext]_vars

PureInit == Load(PureEnv)

PureNext ==
    \/ CallIntersects(PureEnv)
    \/ CallGetTime(PureEnv)
    \/ CallSpawnAsteroid(PureEnv)

\* a harness that loads the script and calls one function directly
PureSpec == PureInit /\ [][PureNext]_vars

----------------------------------------------------------------------------
(* Claims.                                                                 *)

\* the positions of the entities of a bag
Positions(objects) == {<<o.x, o.y>> : o \in BagToSet(objects)}

\* a call of gameLoop made while the game is over
OverCall == gameOver /\ probe'.overCalls = probe.overCalls + 1

\* a call of gameLoop that ran a frame
RunningCall == ~gameOver /\ frames' = frames + 1

\* C1: once gameOver is true it stays true, and no step taken while it is
\* true (a call of gameLoop with any timestamp, a key event) changes a star,
\* an asteroid, the player's position, the two collections, lastTime or
\* totalTime.
C1_TerminatedFrozen ==
    [][gameOver =>
          /\ gameOver'
          /\ stars' = stars
          /\ asteroids' = asteroids
          /\ player'.x = player.x /\ player'.y = player.y
          /\ lastTime' = lastTime
          /\ totalTime' = totalTime]_vars

\* the game is over, gameLoop has been called again after the persisting call
\* and a key is held
C1_Witness ==
    gameOver /\ probe.overCalls = MaxCalls /\ controller.right

\* the two closed-open boxes around the centres overlap in an open set
BoxesOverlap(a, b) ==
    /\ 2 * a.x - a.width < 2 * b.x + b.width
    /\ 2 * b.x - b.width < 2 * a.x + a.width
    /\ 2 * a.y - a.height < 2 * b.y + b.height
    /\ 2 * b.y - b.height < 2 * a.y + a.height

\* C2: after a frame the game is over exactly when the player's box strictly
\* overlaps the box of an asteroid that survived the frame's pruning; an
\* asteroid the pruning removed does not end the game.
C2_TerminatesIffLiveOverlap ==
    gameOver <=> \E o \in BagToSet(asteroids) : BoxesOverlap(player, o)

\* a frame pruned an asteroid that overlaps the player, and the game goes on
C2_Witness ==
    /\ probe.handler = "running"
    /\ ~gameOver
    /\ \E o \in BagToSet(probe.preAsteroids) :
          o \notin BagToSet(asteroids) /\ BoxesOverlap(player, o)

\* the number a stored string stands for
StoredValue(item) == StrToNum(item.s).v
Numeric(item) == ~item.null /\ ~StrToNum(item.s).nan
Max(a, b) == IF a >= b THEN a ELSE b

\* C3: the call that persists the best time writes the elapsed time when
\* nothing is stored; with a number stored it writes exactly when the elapsed
\* time is strictly greater, and else leaves the item alone; the stored number
\* becomes the maximum of the two and never decreases.
C3_BestTimeRule ==
    [][OverCall =>
          /\ storage.null =>
                probe'.wrote /\ storage' = Str(NumToStr(totalTime))
          /\ Numeric(storage) =>
                /\ probe'.wrote <=> totalTime > StoredValue(storage)
                /\ probe'.wrote => storage' = Str(NumToStr(totalTime))
                /\ ~probe'.wrote => storage' = storage
                /\ Numeric(storage')
                /\ StoredValue(storage') = Max(StoredValue(storage), totalTime)
                /\ StoredValue(storage') >= StoredValue(storage)]_vars

\* the game ended with the elapsed time equal to the stored best time, and
\* nothing was written
C3_Witness ==
    /\ probe.handler = "over"
    /\ Numeric(probe.read)
    /\ probe.read.s # <<>>
    /\ StoredValue(probe.read) = totalTime
    /\ ~probe.wrote
    /\ storage = probe.read

\* C4: however often gameLoop is called while the game is over,
\* localStorage.setItem is called at most once in all, the game stays over
\* and no entity moves.
C4_AtMostOneWrite ==
    [][gameOver =>
          /\ probe'.setItems <= 1
          /\ probe'.overCalls > 1 => probe'.setItems = probe.setItems
          /\ gameOver'
          /\ Positions(stars') = Positions(stars)
          /\ Positions(asteroids') = Positions(asteroids)
          /\ <<player'.x, player'.y>> = <<player.x, player.y>>]_vars

\* gameLoop was called several times while the game was over, and the first
\* of these calls wrote the best time
C4_Witness ==
    gameOver /\ probe.overCalls = MaxCalls /\ probe.setItems = 1

\* C5: once the game is over the loop ends: the comparison with the stored
\* best time is made once and no more, a call made while the game is over
\* requests no frame, and after it no callback is scheduled any more.
C5_LoopEnds ==
    /\ [](probe.overCalls <= 1)
    /\ [](probe.handler = "over" => ~probe.requested /\ ~pending)
    /\ gameOver ~> [](probe.overCalls = 1 /\ ~pending)

\* the game is over, the best time has been compared once and no callback is
\* scheduled
C5_Witness ==
    gameOver /\ probe.handler = "over" /\ probe.overCalls = 1 /\ ~pending

\* a stored string that is neither empty nor a numeral
Malformed(item) == ~item.null /\ item.s # <<>> /\ StrToNum(item.s).nan

\* C6: when the stored best time is malformed, the call that persists the
\* best time writes the elapsed time, as it does when nothing is stored.
C6_MalformedAsAbsent ==
    (probe.handler = "over" /\ Malformed(probe.read)) =>
        storage = Str(NumToStr(totalTime))

\* C7: a frame creates at most one star, and none when there are STAR_COUNT
\* stars or more; there are never more than STAR_COUNT stars.
C7_StarsAtMostTarget ==
    [][RunningCall =>
          LET before == BagCardinality(stars)
              pushed == BagCardinality(probe'.preStars) - before
          IN  /\ pushed \in {0, 1}
              /\ before >= STAR_COUNT => pushed = 0
              /\ before <= STAR_COUNT
              /\ BagCardinality(stars') <= STAR_COUNT]_vars

\* stars have left the canvas and a frame has created a new one
C7_Witness ==
    /\ probe.handler = "running"
    /\ probe.spawnedStar
    /\ BagCardinality(stars) < STAR_COUNT

\* 10000 times ASTEROIDS_ON_SCREEN + (time / 1000) * 0.3
Threshold(time) == 10000 * 10 + 3 * time

\* C8: a frame spawns one asteroid when the number of asteroids is strictly
\* below ASTEROIDS_ON_SCREEN + elapsedSeconds * ASTEROIDS_OVER_TIME, taken
\* with the elapsed time this frame has advanced, and none otherwise; the
\* threshold does not decrease when the timestamps do not, and is 10 at 0 s
\* and 13 at 10 s.
C8_SpawnBelowThreshold ==
    [][RunningCall =>
          LET before == BagCardinality(asteroids)
              pushed == BagCardinality(probe'.preAsteroids) - before
          IN  /\ 10000 * before < Threshold(totalTime') => pushed = 1
              /\ 10000 * before >= Threshold(totalTime') => pushed = 0
              /\ lastTime' >= lastTime => Threshold(totalTime') >= Threshold(totalTime)
              /\ Threshold(0) = 10000 * 10
              /\ Threshold(10000) = 10000 * 13]_vars

\* a frame spawned no asteroid because there were as many as the threshold
C8_Witness ==
    /\ probe.handler = "running"
    /\ ~probe.spawnedAsteroid
    /\ BagCardinality(probe.preAsteroids) > ASTEROIDS_ON_SCREEN
    /\ ~gameOver

\* one of the four flags of the claim is true
AnyFlag(o) ==
    \/ o.x > canvas.width + o.width
    \/ o.x < -o.width
    \/ o.y > canvas.height + o.height
    \/ o.y < -o.height

\* the entities of a bag with no flag true
Retained(objects) ==
    LET kept == {o \in BagToSet(objects) : ~AnyFlag(o)}
    IN  [o \in kept |-> CopiesIn(o, objects)]

\* C9: after the pruning of a frame the stars and the asteroids are exactly
\* those of before the pruning with none of the four flags true; an entity of
\* no size at the origin has all four flags false.
C9_PruneKeepsInBounds ==
    /\ asteroids = Retained(probe.preAsteroids)
    /\ stars = Retained(probe.preStars)
    /\ outOfBounds([x |-> 0, y |-> 0, width |-> 0, height |-> 0], canvas)
          = <<FALSE, FALSE, FALSE, FALSE>>

\* a frame has pruned a star
C9_Witness ==
    /\ probe.handler = "running"
    /\ probe.preStars # stars
    /\ \E o \in BagToSet(probe.preStars) : o.x > canvas.width + o.width

\* C10 as stated: driven to x = canvas.width + 1 the player is wrapped to
\* x = -width.
C10_WrapsAtWidthPlusOne ==
    probe.displaced.x = canvas.width + Px(1) => player.x = -player.width

\* C10 as amended: driven to x = canvas.width + 1 the player is not beyond the
\* right bound and keeps that x; driven beyond canvas.width + width it is
\* wrapped to x = -width.
C10_WrapsBeyondWidthPlusWidth ==
    /\ probe.displaced.x = canvas.width + Px(1) => player.x = probe.displaced.x
    /\ probe.displaced.x > canvas.width + probe.displaced.width =>
          player.x = -player.width

\* the player was driven to x = canvas.width + width + 1 and wrapped
C10_Witness ==
    /\ probe.displaced.x = canvas.width + probe.displaced.width + Px(1)
    /\ player.x = -player.width

\* C11: whatever key events come between the frames, the velocity a frame
\* gives the player depends on the four flags as they stand when the frame
\* runs and on nothing else: dx is +speed if right is held (also when left is
\* held too), else -speed if left is held, else 0; dy is +speed if down is
\* held (also when up is held too), else -speed if up is held, else 0; the
\* player is displaced by exactly that, so a key released before the frame
\* gives no velocity on its axis.
C11_VelocityFromFlags ==
    [][RunningCall =>
          LET speed == Px(PLAYER_SPEED)
          IN  /\ controller.right => player'.dx = speed
              /\ ~controller.right /\ controller.left => player'.dx = -speed
              /\ ~controller.right /\ ~controller.left => player'.dx = 0
              /\ controller.down => player'.dy = speed
              /\ ~controller.down /\ controller.up => player'.dy = -speed
              /\ ~controller.down /\ ~controller.up => player'.dy = 0
              /\ probe'.displaced.x = player.x + player'.dx
              /\ probe'.displaced.y = player.y + player'.dy]_vars

\* a frame ran with left and right both held and moved the player right, and
\* with up and down released after an earlier frame had moved it vertically
C11_Witness ==
    /\ probe.handler = "running"
    /\ probe.flags.left /\ probe.flags.right
    /\ ~probe.flags.up /\ ~probe.flags.down
    /\ player.dx = Px(PLAYER_SPEED)
    /\ player.dy = 0
    /\ player.y # canvas.height \div 2

\* the asteroids a frame of DeepSpec may create, as created
FreshAsteroids ==
    {spawnAsteroid(PickArea(RandIndex(ad.rand), canvas), ad) :
        ad \in AsteroidDraws(DeepEnv)}

\* the stars a frame of DeepSpec may create, as created
FreshStars == {NewStar(canvas, sd) : sd \in DeepEnv.starDraws}

Abs(n) == IF n >= 0 THEN n ELSE -n

\* C13: a.intersects(b) is true exactly when the boxes about the two
\* positions, half a width and half a height to each side, overlap strictly
\* on both axes; it equals b.intersects(a); two entities of positive size at
\* the same position intersect; two entities further apart on an axis than
\* the sum of their half-extents do not, and neither do two whose edges only
\* touch.
C13_IntersectsStrictOverlap ==
    call.fn = "intersects" =>
        LET a  == call.args[1]
            b  == call.args[2]
            ab == call.result[1]
            ba == call.result[2]
            gapX == 2 * Abs(a.x - b.x) - (a.width + b.width)
            gapY == 2 * Abs(a.y - b.y) - (a.height + b.height)
        IN  /\ ab <=> BoxesOverlap(a, b)
            /\ ab = ba
            /\ ( /\ a.x = b.x /\ a.y = b.y
                 /\ a.width > 0 /\ a.height > 0
                 /\ b.width > 0 /\ b.height > 0 ) => ab
            /\ (gapX > 0 \/ gapY > 0) => ~ab
            /\ (gapX = 0 \/ gapY = 0) => ~ab

\* intersects was called on two boxes that touch along a vertical edge and
\* share a range of y, and returned false
C13_Witness ==
    /\ call.fn = "intersects"
    /\ 2 * Abs(call.args[1].x - call.args[2].x)
          = call.args[1].width + call.args[2].width
    /\ call.args[1].width > 0 /\ call.args[2].width > 0
    /\ 2 * Abs(call.args[1].y - call.args[2].y)
          < call.args[1].height + call.args[2].height
    /\ call.result = <<FALSE, FALSE>>

\* the places of the colons of a string
Colons(s) == {i \in 1..Len(s) : s[i] = ":"}

\* a string of digits only
Numeral(s) == \A i \in 1..Len(s) : s[i] \in {Digits[d] : d \in 1..10}

\* C14: for an integer t >= 0 of elapsed milliseconds getTime gives three
\* numerals with a colon between them: the minutes, t div 60000, in two
\* digits at least; the seconds, in 0..59, in two digits at least; the
\* milliseconds, in 0..999, in three digits at least; together they make t.
\* 125000 ms gives "02:05:000".
C14_GetTimeFormat ==
    call.fn = "getTime" =>
        LET t  == call.args[1]
            s  == call.result
            c1 == CHOOSE i \in Colons(s) : \A j \in Colons(s) : i <= j
            c2 == CHOOSE i \in Colons(s) : \A j \in Colons(s) : i >= j
            minutes == SubSeq(s, 1, c1 - 1)
            seconds == SubSeq(s, c1 + 1, c2 - 1)
            ms      == SubSeq(s, c2 + 1, Len(s))
        IN  /\ Cardinality(Colons(s)) = 2
            /\ Numeral(minutes) /\ Numeral(seconds) /\ Numeral(ms)
            /\ Len(minutes) >= 2 /\ Len(seconds) >= 2 /\ Len(ms) >= 3
            /\ DigitsValue(minutes) = t \div 60000
            /\ DigitsValue(seconds) \in 0..59
            /\ DigitsValue(ms) \in 0..999
            /\ DigitsValue(minutes) * 60000 + DigitsValue(seconds) * 1000
                  + DigitsValue(ms) = t
            /\ t = 125000 =>
                  s = <<"0", "2", ":", "0", "5", ":", "0", "0", "0">>

\* getTime was called with 125000 and gave "02:05:000"
C14_Witness ==
    /\ call.fn = "getTime"
    /\ call.args = <<125000>>
    /\ call.result = <<"0", "2", ":", "0", "5", ":", "0", "0", "0">>

\* C15: after the displacement of a frame the player is wrapped: beyond the
\* right bound (x > canvas.width + width) its x becomes -width, beyond the
\* left bound (x < -width) its x becomes canvas.width, beyond the bottom
\* bound its y becomes -height, beyond the top bound its y becomes
\* canvas.height; on an axis with neither flag true it stays where the
\* displacement put it; the player is never removed and keeps its size.
C15_WrapOnExit ==
    LET d      == probe.displaced
        right  == d.x > canvas.width + d.width
        left   == d.x < -d.width
        bottom == d.y > canvas.height + d.height
        top    == d.y < -d.height
    IN  /\ right => player.x = -d.width
        /\ left => player.x = canvas.width
        /\ bottom => player.y = -d.height
        /\ top => player.y = canvas.height
        /\ ~right /\ ~left => player.x = d.x
        /\ ~bottom /\ ~top => player.y = d.y
        /\ player.width = Px(PLAYER_SIZE) /\ player.height = Px(PLAYER_SIZE)

\* a frame drove the player beyond the left and the top bound at once and
\* wrapped it to the right and the bottom edge
C15_Witness ==
    /\ probe.handler = "running"
    /\ probe.displaced.x < -probe.displaced.width
    /\ probe.displaced.y < -probe.displaced.height
    /\ player.x = canvas.width
    /\ player.y = canvas.height

\* C19: from its start at the centre of the canvas the player is within the
\* bounds of the pruning after every frame, whatever the key events:
\* -width <= x <= canvas.width + width and -height <= y <= canvas.height +
\* height.
C19_PlayerWithinBounds ==
    /\ -player.width <= player.x
    /\ player.x <= canvas.width + player.width
    /\ -player.height <= player.y
    /\ player.y <= canvas.height + player.height

\* a frame drove the player beyond the right and the bottom bound at once
\* and wrapped it to the lower ends of the two ranges
C19_Witness ==
    /\ probe.handler = "running"
    /\ probe.displaced.x > canvas.width + player.width
    /\ probe.displaced.y > canvas.height + player.height
    /\ player.x = -player.width
    /\ player.y = -player.height

\* C16: for every size of the canvas, the left and the right spawn area are
\* canvas.height high, from y = 0; the top and the bottom area are
\* canvas.width wide, from x = 0; each is about 100 deep and reaches one
\* pixel into the canvas; and every position spawnAsteroid draws lies in the
\* rectangle of its area.
C16_ZonesSpanViewport ==
    call.fn = "spawnAsteroid" =>
        LET W  == canvas.width
            H  == canvas.height
            l  == spawnAreaLeft(canvas)
            r  == spawnAreaRight(canvas)
            t  == spawnAreaTop(canvas)
            b  == spawnAreaBottom(canvas)
            id == call.args[1].outerCanvasArea
            o  == call.result
            In(x1, y1, x2, y2) == x1 <= o.x /\ o.x <= x2 /\ y1 <= o.y /\ o.y <= y2
        IN  /\ l.y = 0 /\ l.height = H /\ r.y = 0 /\ r.height = H
            /\ t.x = 0 /\ t.width = W /\ b.x = 0 /\ b.width = W
            /\ l.width \in {Px(100), Px(101)} /\ r.width \in {Px(100), Px(101)}
            /\ t.height \in {Px(100), Px(101)} /\ b.height \in {Px(100), Px(101)}
            /\ l.x + l.width = Px(1) /\ r.x = W - Px(1)
            /\ t.y + t.height = Px(1) /\ b.y = H - Px(1)
            /\ id = OuterCanvasArea.LEFT => In(Px(-100), 0, Px(1), H)
            /\ id = OuterCanvasArea.RIGHT => In(W - Px(1), 0, W + Px(99), H)
            /\ id = OuterCanvasArea.TOP => In(0, Px(-100), W, Px(1))
            /\ id = OuterCanvasArea.BOTTOM => In(0, H - Px(1), W, H + Px(99))

\* C17: the heading spawnAsteroid gives is fixed by the area: bottom in
\* [200, 340) degrees, top in [20, 160), left in [280, 440), right in
\* [100, 260); so the first update moves the asteroid inwards (bottom: y
\* falls, top: y grows, left: x grows, right: x falls); the speed is in
\* [1, 1 + ASTEROID_SPEED).
C17_InwardHeading ==
    call.fn = "spawnAsteroid" =>
        LET id == call.args[1].outerCanvasArea
            o  == call.result
            Within(deg1, deg2) == deg1 * 10 <= o.angle /\ o.angle < deg2 * 10
        IN  /\ id = OuterCanvasArea.BOTTOM => Within(200, 340) /\ Moved(o).y < o.y
            /\ id = OuterCanvasArea.TOP => Within(20, 160) /\ Moved(o).y > o.y
            /\ id = OuterCanvasArea.LEFT => Within(280, 440) /\ Moved(o).x > o.x
            /\ id = OuterCanvasArea.RIGHT => Within(100, 260) /\ Moved(o).x < o.x
            /\ Px(1) <= o.speed /\ o.speed < Px(1 + ASTEROID_SPEED)

\* spawnAsteroid was called on the left area, the sum of the two draws went
\* beyond a full turn, and the asteroid moves to the right
C17_Witness ==
    /\ call.fn = "spawnAsteroid"
    /\ call.args[1].outerCanvasArea = OuterCanvasArea.LEFT
    /\ call.result.angle > 3600
    /\ Moved(call.result).x > call.result.x

\* C18: an asteroid a frame creates is among the asteroids at the end of that
\* frame: where spawnAsteroid puts it no flag of the pruning is true, so the
\* pruning of the same frame keeps it.
C18_FreshAsteroidSurvives ==
    [][RunningCall /\ probe'.spawnedAsteroid =>
          \A o \in BagToSet(probe'.preAsteroids (-) UpdateAll(asteroids)) :
              /\ ~AnyFlag(o)
              /\ CopiesIn(o, asteroids') = CopiesIn(o, probe'.preAsteroids)]_vars

\* C20: with timestamps that do not decrease, at the end of every running
\* frame the number of asteroids is strictly less than ASTEROIDS_ON_SCREEN +
\* elapsedSeconds * ASTEROIDS_OVER_TIME + 1, and it is at most one more than
\* before the frame.
C20_SoftCapNotOvershot ==
    [][RunningCall /\ lastTime' >= lastTime =>
          /\ 10000 * BagCardinality(asteroids') < Threshold(totalTime') + 10000
          /\ BagCardinality(asteroids') <= BagCardinality(asteroids) + 1]_vars

\* a frame created the asteroid that takes the number above the threshold,
\* by less than one
C20_Witness ==
    /\ probe.handler = "running"
    /\ probe.spawnedAsteroid
    /\ BagCardinality(asteroids) = ASTEROIDS_ON_SCREEN + 1
    /\ 10000 * BagCardinality(asteroids) > Threshold(totalTime)
    /\ 10000 * (BagCardinality(asteroids) - 1) < Threshold(totalTime)

\* C21: in every state the elapsed time totalTime equals lastTime, the
\* timestamp of the latest running frame: the first delta is measured from
\* 0, so after the first frame the elapsed time is that frame's timestamp,
\* not 0; and the best time a call writes is that timestamp.
C21_ElapsedIsLastStamp ==
    /\ totalTime = lastTime
    /\ frames = 1 => totalTime \in DeepEnv.firstStamps /\ totalTime > 0
    /\ (probe.handler = "over" /\ probe.wrote) =>
          storage = Str(NumToStr(lastTime))

\* the first frame came after a long pause, and the game ended and wrote
\* the timestamp of its last frame as the best time
C21_Witness ==
    /\ probe.handler = "over"
    /\ probe.wrote
    /\ lastTime >= LongPause
    /\ frames >= 2
    /\ storage = Str(NumToStr(lastTime))

====
